---- MODULE Spec2Model ----
(***************************************************************************)
(* QuizTime backend: the leaderboard, the per-user Stats aggregate and the *)
(* completion endpoints, as a state machine.                               *)
(*                                                                         *)
(* Three leaderboards exist in the sources:                                *)
(*   - the JSON file leaderboard.json, username-keyed {username, score},   *)
(*     written by updateLeaderboard;                                       *)
(*   - the `entries` array of the MongoDB Leaderboard document, also       *)
(*     username-keyed, written by POST /api/stats of the dual-write server;*)
(*   - the `leaderboard` array of the MongoDB Leaderboard document,        *)
(*     {id, userId, prizeWon}, written by POST /api/game/complete and      *)
(*     POST /api/complete-game.                                            *)
(* The server that has /api/game/complete is read with the models whose   *)
(* Stats has gamesPlayed, gamesCompleted, totalPrizeMoney,                 *)
(* questionsAnswered, accuracy and whose Leaderboard has the `leaderboard` *)
(* array: the only ones its completion handlers can run on.                *)
(* Identities are integers; prizes and scores are naturals.  Fields that   *)
(* are only stored and never read back by the code (dates, names, times)   *)
(* are left out of the records.                                            *)
(***************************************************************************)
EXTENDS Integers, Sequences, FiniteSets, TLC

\* ---- bounds of the model
NumUsers == 2           \* users sending requests
MaxPrize == 2           \* prizes and scores are 0..MaxPrize
MaxAnswered == 1        \* questionsAnswered of one game is 0..MaxAnswered
MaxRequests == 3        \* requests of a run of Spec
MaxStatsRequests == 2   \* completion events of a run of SpecStats
MaxFullRequests == 2    \* requests of a run of SpecFull
Extra == 5              \* SpecTrunc: submissions beyond TopN
NumSlots == 2           \* SpecConc: requests in flight together
MaxConcRequests == 3    \* SpecConc: requests of a run
QPerLevel == 2          \* questions in the catalog file of a level
MaxCount == 2           \* largest `count` of a question request
MaxQRequests == 3       \* question requests of a run
ExtraQuestions == 2     \* questions.json: questions beyond those of a game
MaxBuildRequests == 2   \* game/questions requests of a run
MaxMultiplier == 4      \* SpecTrunc: orders in which the scores arrive
NumOptions == 2         \* distinct answers a question or a request may carry
MaxCheckRequests == 2   \* answer checks of a run
MaxTypedScore == 11     \* SpecTyped: a score is 0..MaxTypedScore, number or string
MinPrize == 1           \* SpecPrize: a finalPrize is -MinPrize..MaxPrize
MaxQConcRequests == 2   \* SpecQConc: question requests of a run

\* ---- program constant: "Keep top 100 entries"
TopN == 100

\* ---- program constant: "Randomly select 16 different questions"
GameLength == 16

Users == 1..NumUsers
Prizes == 0..MaxPrize
Answered == 0..MaxAnswered

VARIABLES
  Leaderboard,   \* MongoDB Leaderboard collection: sequence of documents
                 \*   [leaderboard |-> <<[id, userId, prizeWon]>>, v |-> __v]
  lbEntries,     \* `entries` array of the dual-write server's document
  lbFile,        \* leaderboard.json: <<[username, score]>>
  Stats,         \* MongoDB Stats collection: username -> record
  statsFile,     \* stats.json: username -> score of the last game
  resp,          \* the last request and its response
  nreq,          \* history: number of requests handled so far
  hist,          \* history: username -> sums over its completion events
  subs,          \* history: the <<identity, prize>> submitted to each leaderboard
  plan,          \* SpecTrunc: the endpoint used and the order of the scores
  reqs,          \* SpecConc: slot -> the game/complete request in flight
  Question,      \* MongoDB Question collection: <<[id, level]>> as inserted
  User,          \* MongoDB User collection: username -> questionsAnswered
  userQuestions, \* user_questions.json: username -> ids served from the files
  served,        \* history: username -> ids returned to the user so far
  questionsFile, \* questions.json: the ids of the catalog of the game builder
  build          \* the POST /api/game/questions request being handled

boardVars == <<Leaderboard, lbEntries, lbFile, Stats, statsFile, hist, subs,
               plan, reqs>>

boardVars_noReqs == <<Leaderboard, lbEntries, lbFile, Stats, statsFile, hist, subs, plan>>

questionVars == <<Question, User, userQuestions, served, questionsFile, build>>

vars == <<boardVars, questionVars, resp, nreq>>

\* ------------------------------------------------------------------------
\* Array helpers

Max(S) == CHOOSE x \in S : \A y \in S : y <= x

\* Array.prototype.sort is stable, and so is SortSeq (an insertion sort that
\* moves an element left only past elements it must precede).
\* sort((a, b) => b.prizeWon - a.prizeWon): a goes first when the result is
\* faulty variant: a sort that reorders entries of equal prizeWon
SortByPrizeWonUnstable(list) ==
  SortSeq(list, LAMBDA a, b : a.prizeWon >= b.prizeWon)

\* negative, that is when a.prizeWon > b.prizeWon.
SortByPrizeWon(list) == SortSeq(list, LAMBDA a, b : a.prizeWon > b.prizeWon)

\* sort((a, b) => b.score - a.score)
SortByScore(list) == SortSeq(list, LAMBDA a, b : a.score > b.score)

\* faulty variant: slice(0, 101)
KeepTopOffByOne(list) ==
  IF Len(list) > TopN THEN SubSeq(list, 1, TopN + 1) ELSE list

\* faulty variant: slice(-100), the last 100 kept
KeepBottom(list) ==
  IF Len(list) > TopN THEN SubSeq(list, Len(list) - TopN + 1, Len(list)) ELSE list

\* if (length > 100) list = list.slice(0, 100)
KeepTop(list) == IF Len(list) > TopN THEN SubSeq(list, 1, TopN) ELSE list

\* findIndex(entry => entry.id === id): 0-based, -1 when absent
FindIndexById(list, id) ==
  IF \E i \in 1..Len(list) : list[i].id = id
    THEN (CHOOSE i \in 1..Len(list) :
            /\ list[i].id = id
            /\ \A j \in 1..(i - 1) : list[j].id # id) - 1
    ELSE -1

\* findIndex(entry => entry.username === username)
FindIndexByUsername(list, username) ==
  IF \E i \in 1..Len(list) : list[i].username = username
    THEN (CHOOSE i \in 1..Len(list) :
            /\ list[i].username = username
            /\ \A j \in 1..(i - 1) : list[j].username # username) - 1
    ELSE -1

\* lastEntry + 1, lastEntry = Math.max(...ids) or 0 for an empty list
NextEntryId(list) ==
  (IF Len(list) > 0 THEN Max({list[i].id : i \in 1..Len(list)}) ELSE 0) + 1

\* faulty variant: the 0-based index returned as the position
LeaderboardPositionZeroBased(list, newId) == FindIndexById(list, newId)

\* leaderboardPosition: findIndex(entry => entry.id === newId) + 1
LeaderboardPosition(list, newId) == FindIndexById(list, newId) + 1

\* faulty variant: push and slice without the sort
PushEntryUnsorted(list, newId, userId, prizeWon) ==
  KeepTop(Append(list, [id |-> newId, userId |-> userId, prizeWon |-> prizeWon]))

\* faulty variant: slice before the sort: the new entry is the one cut
PushEntrySliceFirst(list, newId, userId, prizeWon) ==
  SortByPrizeWon(KeepTop(
    Append(list, [id |-> newId, userId |-> userId, prizeWon |-> prizeWon])))

\* push, sort, slice of the completion endpoints
PushEntry(list, newId, userId, prizeWon) ==
  KeepTop(SortByPrizeWon(
    Append(list, [id |-> newId, userId |-> userId, prizeWon |-> prizeWon])))

\* ------------------------------------------------------------------------
\* Stats aggregate of POST /api/game/complete

\* Math.round((correct / answered) * 100) for answered > 0: round half up.
\* (Exact arithmetic; for the small integers of the model the doubles agree.)
RoundPct(correct, answered) == (200 * correct + answered) \div (2 * answered)

\* Stats.findOne().sort({ id: -1 }): lastStat ? lastStat.id + 1 : 1
NextStatsId(coll) ==
  IF DOMAIN coll # {} THEN Max({coll[u].id : u \in DOMAIN coll}) + 1 ELSE 1

\* new Stats({...}) of the first completion of a user
CreateStats(newId, qa, ca, prize, completed) ==
  [id |-> newId, gamesPlayed |-> 1,
   gamesCompleted |-> IF completed THEN 1 ELSE 0,
   totalPrizeMoney |-> prize,
   questionsAnswered |-> qa,
   accuracy |-> IF qa > 0 THEN RoundPct(ca, qa) ELSE 0]

\* faulty variant: gamesCompleted incremented whatever the flag
UpdateStatsAlwaysCompleted(s, qa, ca, prize, completed) ==
  LET answered == s.questionsAnswered + qa
  IN  [s EXCEPT !.gamesPlayed = @ + 1,
                !.gamesCompleted = @ + 1,
                !.totalPrizeMoney = @ + prize,
                !.questionsAnswered = answered,
                !.accuracy = IF answered > 0 THEN RoundPct(ca, answered) ELSE 0]

\* the in-memory update of an existing record
UpdateStats(s, qa, ca, prize, completed) ==
  LET answered == s.questionsAnswered + qa
  IN  [s EXCEPT !.gamesPlayed = @ + 1,
                !.gamesCompleted = IF completed THEN @ + 1 ELSE @,
                !.totalPrizeMoney = @ + prize,
                !.questionsAnswered = answered,
                !.accuracy = IF answered > 0 THEN RoundPct(ca, answered) ELSE 0]

NoHist == [games |-> 0, completed |-> 0, prize |-> 0, answered |-> 0, correct |-> 0]

AddHist(h, qa, ca, prize, completed) ==
  [games |-> h.games + 1,
   completed |-> h.completed + (IF completed THEN 1 ELSE 0),
   prize |-> h.prize + prize,
   answered |-> h.answered + qa,
   correct |-> h.correct + ca]

\* f with key k set to value x: data[k] = x on an object, or a document
\* inserted into or replaced in a collection
Put(f, k, x) == [y \in DOMAIN f \cup {k} |-> IF y = k THEN x ELSE f[y]]

\* ------------------------------------------------------------------------
\* Requests and responses

NoResp ==
  [op |-> "none", user |-> 0, prize |-> 0, code |-> 0, wroteLeaderboard |-> FALSE,
   newId |-> 0, leaderboardPosition |-> -1,
   hasLeaderboard |-> FALSE, leaderboard |-> <<>>,
   level |-> "none", count |-> 0, questions |-> <<>>, body |-> "full",
   questionId |-> 0, answer |-> 0, correct |-> FALSE, correctAnswer |-> 0,
   error |-> "none", stats |-> 0]

\* Leaderboard.findOne({}): the first document of the collection, or a new
\* Leaderboard({ leaderboard: [] }) when there is none
FindOneList(coll) == IF Len(coll) > 0 THEN coll[1].leaderboard ELSE <<>>

\* leaderboard.save(): the first document updated (its __v incremented), or
\* the new document inserted
SaveList(coll, list) ==
  IF Len(coll) > 0
    THEN [coll EXCEPT ![1] = [leaderboard |-> list, v |-> @.v + 1]]
    ELSE <<[leaderboard |-> list, v |-> 0]>>

\* the Stats part of POST /api/game/complete
RecordCompletion(coll, username, qa, ca, finalPrize, gameCompleted) ==
  IF username \in DOMAIN coll
    THEN Put(coll, username,
             UpdateStats(coll[username], qa, ca, finalPrize, gameCompleted))
    ELSE Put(coll, username,
             CreateStats(NextStatsId(coll), qa, ca, finalPrize, gameCompleted))

\* POST /api/game/complete, one request handled alone
GameComplete(u, qa, ca, finalPrize, gameCompleted) ==
  /\ nreq' = nreq + 1
  /\ Stats' = RecordCompletion(Stats, u, qa, ca, finalPrize, gameCompleted)
  /\ hist' = Put(hist, u, AddHist(IF u \in DOMAIN hist THEN hist[u] ELSE NoHist,
                                  qa, ca, finalPrize, gameCompleted))
  /\ IF finalPrize > 0
       THEN LET old == FindOneList(Leaderboard)
                newId == NextEntryId(old)
                list == PushEntry(old, newId, u, finalPrize)
            IN  /\ Leaderboard' = SaveList(Leaderboard, list)
                /\ subs' = [subs EXCEPT !.mongo = Append(@, <<u, finalPrize>>)]
                /\ resp' = [NoResp EXCEPT !.op = "game/complete", !.user = u,
                              !.prize = finalPrize, !.code = 200,
                              !.wroteLeaderboard = TRUE, !.newId = newId,
                              !.leaderboardPosition =
                                 LeaderboardPosition(list, newId)]
       ELSE /\ UNCHANGED <<Leaderboard, subs>>
            /\ resp' = [NoResp EXCEPT !.op = "game/complete", !.user = u,
                          !.prize = finalPrize, !.code = 200]
  /\ UNCHANGED <<lbEntries, lbFile, statsFile, plan, reqs, questionVars>>

\* POST /api/complete-game, one request handled alone
CompleteGame(userId, prizeWon) ==
  /\ nreq' = nreq + 1
  /\ LET old == FindOneList(Leaderboard)
         newId == NextEntryId(old)
         list == PushEntry(old, newId, userId, prizeWon)
     IN  /\ Leaderboard' = SaveList(Leaderboard, list)
         /\ resp' = [NoResp EXCEPT !.op = "complete-game", !.user = userId,
                       !.prize = prizeWon, !.code = 200,
                       !.wroteLeaderboard = TRUE, !.newId = newId,
                       !.leaderboardPosition = LeaderboardPosition(list, newId)]
  /\ subs' = [subs EXCEPT !.mongo = Append(@, <<userId, prizeWon>>)]
  /\ UNCHANGED <<lbEntries, lbFile, Stats, statsFile, hist, plan, reqs, questionVars>>

\* updateLeaderboard(username, gameStats) on the list read from leaderboard.json
UpdateLeaderboard(list, username, score) ==
  LET userIndex == FindIndexByUsername(list, username)
      leaderboardEntry == [username |-> username, score |-> score]
      merged == IF userIndex >= 0
                  THEN IF score > list[userIndex + 1].score
                         THEN [list EXCEPT ![userIndex + 1] = leaderboardEntry]
                         ELSE list
                  ELSE Append(list, leaderboardEntry)
  IN  KeepTop(SortByScore(merged))

\* the same merge on leaderboard.entries of the MongoDB document
UpsertEntries(entries, username, score) ==
  LET existingEntryIndex == FindIndexByUsername(entries, username)
      leaderboardEntry == [username |-> username, score |-> score]
      merged == IF existingEntryIndex >= 0
                  THEN IF score > entries[existingEntryIndex + 1].score
                         THEN [entries EXCEPT ![existingEntryIndex + 1] =
                                 leaderboardEntry]
                         ELSE entries
                  ELSE Append(entries, leaderboardEntry)
  IN  KeepTop(SortByScore(merged))

\* POST /api/stats of the dual-write server: MongoDB entries, then the JSON
\* files.  (Its score-only Stats and User documents and users.json are
\* written and never read by the endpoints modelled here.)
PostStats(username, score) ==
  /\ nreq' = nreq + 1
  /\ lbEntries' = UpsertEntries(lbEntries, username, score)
  /\ statsFile' = Put(statsFile, username, score)
  /\ lbFile' = UpdateLeaderboard(lbFile, username, score)
  /\ resp' = [NoResp EXCEPT !.op = "stats", !.user = username, !.prize = score,
                !.code = 200, !.wroteLeaderboard = TRUE]
  /\ subs' = [subs EXCEPT !.scores = Append(@, <<username, score>>)]
  /\ UNCHANGED <<Leaderboard, Stats, hist, plan, reqs, questionVars>>

\* GET /api/leaderboard of the server that has /api/game/complete.  The
\* schema of its Leaderboard model has the array `leaderboard` and no path
\* `entries`, so `leaderboard.entries` is undefined on every document:
\*   - a document exists: `leaderboard.entries.length` throws, and the catch
\*     block answers with the JSON file;
\*   - no document, JSON file non-empty: new Leaderboard({ entries }) keeps
\*     no `entries` (strict schema), is saved with an empty `leaderboard`
\*     array, and the response carries the undefined `leaderboard.entries`;
\*   - no document, JSON file empty: { leaderboard: [] }.
GetLeaderboard ==
  /\ nreq' = nreq + 1
  /\ IF Len(Leaderboard) > 0
       THEN /\ resp' = [NoResp EXCEPT !.op = "leaderboard", !.code = 200,
                          !.hasLeaderboard = TRUE, !.leaderboard = lbFile]
            /\ UNCHANGED Leaderboard
       ELSE IF Len(lbFile) > 0
         THEN /\ Leaderboard' = <<[leaderboard |-> <<>>, v |-> 0]>>
              /\ resp' = [NoResp EXCEPT !.op = "leaderboard", !.code = 200]
         ELSE /\ resp' = [NoResp EXCEPT !.op = "leaderboard", !.code = 200,
                            !.hasLeaderboard = TRUE]
              /\ UNCHANGED Leaderboard
  /\ UNCHANGED <<lbEntries, lbFile, Stats, statsFile, hist, subs, plan, reqs, questionVars>>

\* POST /api/game/complete with a body that has no completionTime, or 0 or
\* a text such as "1:30": the new entry carries completionTime "0:00" or the
\* text, the schema of the entry declares a Number, and leaderboard.save()
\* rejects with a ValidationError after stats.save() has completed; the
\* catch block answers 500.  Without a prize no entry is built.
GameCompleteNoTime(u, qa, ca, finalPrize, gameCompleted) ==
  /\ nreq' = nreq + 1
  /\ Stats' = RecordCompletion(Stats, u, qa, ca, finalPrize, gameCompleted)
  /\ hist' = Put(hist, u, AddHist(IF u \in DOMAIN hist THEN hist[u] ELSE NoHist,
                                  qa, ca, finalPrize, gameCompleted))
  /\ resp' = [NoResp EXCEPT !.op = "game/complete", !.user = u,
                !.prize = finalPrize,
                !.code = IF finalPrize > 0 THEN 500 ELSE 200]
  /\ UNCHANGED <<Leaderboard, lbEntries, lbFile, statsFile, subs, plan, reqs, questionVars>>

\* POST /api/game/complete with a body that has none of questionsAnswered,
\* correctAnswers, finalPrize, gameCompleted.  Nothing checks the body:
\* `|| 0` stands in for the counts and the prize.  On a record with
\* questionsAnswered > 0 the accuracy is Math.round(undefined / n * 100),
\* NaN, which the Number path rejects: stats.save() fails and the catch
\* block answers 500.  Otherwise the record is created or updated and the
\* answer is 'Game stats updated'.
GameCompleteEmptyBody(u) ==
  /\ nreq' = nreq + 1
  /\ IF u \in DOMAIN Stats /\ Stats[u].questionsAnswered > 0
       THEN /\ resp' = [NoResp EXCEPT !.op = "game/complete", !.user = u,
                          !.code = 500, !.body = "empty"]
            /\ UNCHANGED <<Stats, hist>>
       ELSE /\ Stats' = RecordCompletion(Stats, u, 0, 0, 0, FALSE)
            /\ hist' = Put(hist, u,
                           AddHist(IF u \in DOMAIN hist THEN hist[u] ELSE NoHist,
                                   0, 0, 0, FALSE))
            /\ resp' = [NoResp EXCEPT !.op = "game/complete", !.user = u,
                          !.code = 200, !.body = "empty"]
  /\ UNCHANGED <<Leaderboard, lbEntries, lbFile, statsFile, subs, plan, reqs,
                 questionVars>>

\* ------------------------------------------------------------------------
\* POST /api/game/complete, requests in flight together.  A handler runs
\* without interruption between two awaits; each action below is one such
\* stretch, ending at the await whose result the next action consumes.

Slots == 1..NumSlots

NoStats ==
  [id |-> 0, gamesPlayed |-> 0, gamesCompleted |-> 0, totalPrizeMoney |-> 0,
   questionsAnswered |-> 0, accuracy |-> 0]

Idle ==
  [pc |-> "idle", user |-> 0, qa |-> 0, ca |-> 0, prize |-> 0, completed |-> FALSE,
   stats |-> NoStats, statsId |-> 0,
   lbFound |-> FALSE, lbList |-> <<>>, lbV |-> 0]

NoReqs == [r \in Slots |-> Idle]

\* stats.save() of a document read earlier: $set of the paths whose value
\* was changed since the read, the other paths of the stored document stay
SaveModified(stored, read, new) ==
  [f \in DOMAIN stored |-> IF new[f] # read[f] THEN new[f] ELSE stored[f]]

\* a request arrives on the first free slot; the handler up to
\* `await Stats.findOne({ username })`
Receive(r, u, qa, ca, finalPrize, gameCompleted) ==
  /\ reqs[r].pc = "idle"
  /\ \A k \in 1..(r - 1) : reqs[k].pc # "idle"
  /\ nreq' = nreq + 1
  /\ reqs' = [reqs EXCEPT ![r] = [Idle EXCEPT !.pc = "findStats", !.user = u,
                !.qa = qa, !.ca = ca, !.prize = finalPrize,
                !.completed = gameCompleted]]
  /\ UNCHANGED <<Leaderboard, lbEntries, lbFile, Stats, statsFile, resp, hist,
                 subs, plan, questionVars>>

\* Stats.findOne({ username }) answers; the record is updated in memory up
\* to `await stats.save()`, or the handler goes on to the lastStat query
FindStats(r) ==
  /\ reqs[r].pc = "findStats"
  /\ reqs' = [reqs EXCEPT ![r] =
       IF reqs[r].user \in DOMAIN Stats
         THEN [@ EXCEPT !.pc = "saveStats", !.stats = Stats[reqs[r].user]]
         ELSE [@ EXCEPT !.pc = "findLastStat"]]
  /\ UNCHANGED <<Leaderboard, lbEntries, lbFile, Stats, statsFile, resp, nreq,
                 hist, subs, plan, questionVars>>

\* what follows the Stats write: the leaderboard query when finalPrize > 0,
\* otherwise the response, which ends the request
AfterStats(q) ==
  IF q.prize > 0 THEN [q EXCEPT !.pc = "findLeaderboard"] ELSE Idle

\* stats.save() of the updated record completes
SaveStats(r) ==
  LET q == reqs[r]
      new == UpdateStats(q.stats, q.qa, q.ca, q.prize, q.completed)
  IN  /\ q.pc = "saveStats"
      /\ Stats' = Put(Stats, q.user, SaveModified(Stats[q.user], q.stats, new))
      /\ hist' = Put(hist, q.user,
                     AddHist(IF q.user \in DOMAIN hist THEN hist[q.user] ELSE NoHist,
                             q.qa, q.ca, q.prize, q.completed))
      /\ reqs' = [reqs EXCEPT ![r] = AfterStats(q)]
      /\ resp' = IF q.prize > 0 THEN resp
                 ELSE [NoResp EXCEPT !.op = "game/complete", !.user = q.user,
                         !.prize = q.prize, !.code = 200]
      /\ UNCHANGED <<Leaderboard, lbEntries, lbFile, statsFile, nreq, subs, plan, questionVars>>

\* Stats.findOne().sort({ id: -1 }) answers; the new record is built
FindLastStat(r) ==
  /\ reqs[r].pc = "findLastStat"
  /\ reqs' = [reqs EXCEPT ![r] = [@ EXCEPT !.pc = "insertStats",
                                     !.statsId = NextStatsId(Stats)]]
  /\ UNCHANGED <<Leaderboard, lbEntries, lbFile, Stats, statsFile, resp, nreq,
                 hist, subs, plan, questionVars>>

\* stats.save() of the new record completes; username is a unique index, a
\* second record of the user is rejected and the catch block answers 500
InsertStats(r) ==
  LET q == reqs[r]
  IN  /\ q.pc = "insertStats"
      /\ IF q.user \in DOMAIN Stats
           THEN /\ reqs' = [reqs EXCEPT ![r] = Idle]
                /\ resp' = [NoResp EXCEPT !.op = "game/complete", !.user = q.user,
                              !.prize = q.prize, !.code = 500]
                /\ UNCHANGED <<Stats, hist>>
           ELSE /\ Stats' = Put(Stats, q.user,
                                CreateStats(q.statsId, q.qa, q.ca, q.prize,
                                            q.completed))
                /\ hist' = Put(hist, q.user,
                               AddHist(NoHist, q.qa, q.ca, q.prize, q.completed))
                /\ reqs' = [reqs EXCEPT ![r] = AfterStats(q)]
                /\ resp' = IF q.prize > 0 THEN resp
                           ELSE [NoResp EXCEPT !.op = "game/complete",
                                   !.user = q.user, !.prize = q.prize, !.code = 200]
      /\ UNCHANGED <<Leaderboard, lbEntries, lbFile, statsFile, nreq, subs, plan, questionVars>>

\* Leaderboard.findOne({}) answers; the entry is pushed, the array sorted
\* and sliced in memory up to `await leaderboard.save()`
FindLeaderboard(r) ==
  /\ reqs[r].pc = "findLeaderboard"
  /\ reqs' = [reqs EXCEPT ![r] =
       [@ EXCEPT !.pc = "saveLeaderboard",
                 !.lbFound = Len(Leaderboard) > 0,
                 !.lbList = FindOneList(Leaderboard),
                 !.lbV = IF Len(Leaderboard) > 0 THEN Leaderboard[1].v ELSE 0]]
  /\ UNCHANGED <<Leaderboard, lbEntries, lbFile, Stats, statsFile, resp, nreq,
                 hist, subs, plan, questionVars>>

\* leaderboard.save() completes.  A new document is inserted.  A document
\* read earlier has its array replaced ($set after sort), which Mongoose
\* sends with the __v it read and an increment: when the stored __v has
\* moved the update matches nothing, save() rejects with a VersionError and
\* the catch block answers 500.
SaveLeaderboard(r) ==
  LET q == reqs[r]
      newId == NextEntryId(q.lbList)
      list == PushEntry(q.lbList, newId, q.user, q.prize)
      stale == q.lbFound /\ Leaderboard[1].v # q.lbV
  IN  /\ q.pc = "saveLeaderboard"
      /\ Leaderboard' =
           IF stale THEN Leaderboard
           ELSE IF q.lbFound
             THEN [Leaderboard EXCEPT ![1] = [leaderboard |-> list, v |-> @.v + 1]]
             ELSE Append(Leaderboard, [leaderboard |-> list, v |-> 0])
      /\ subs' = IF stale THEN subs
                 ELSE [subs EXCEPT !.mongo = Append(@, <<q.user, q.prize>>)]
      /\ reqs' = [reqs EXCEPT ![r] = Idle]
      /\ resp' = IF stale
                   THEN [NoResp EXCEPT !.op = "game/complete", !.user = q.user,
                           !.prize = q.prize, !.code = 500]
                   ELSE [NoResp EXCEPT !.op = "game/complete", !.user = q.user,
                           !.prize = q.prize, !.code = 200,
                           !.wroteLeaderboard = TRUE, !.newId = newId,
                           !.leaderboardPosition = LeaderboardPosition(list, newId)]
      /\ UNCHANGED <<lbEntries, lbFile, Stats, statsFile, nreq, hist, plan, questionVars>>

\* ------------------------------------------------------------------------
\* Questions

NoBuild == [pc |-> "idle", user |-> 0, allQuestions |-> <<>>, randomQ |-> 0]

\* no question, no user, no record of served questions
NoQuestions ==
  /\ Question = <<>>
  /\ User = <<>>
  /\ userQuestions = <<>>
  /\ served = <<>>
  /\ questionsFile = <<>>
  /\ build = NoBuild

LEVELS == {"easy", "medium", "hard"}

\* the levels a request may name: LEVELS and one that is not a level
RequestLevels == LEVELS \cup {"expert"}

Counts == 1..MaxCount

LevelIndex(level) ==
  CASE level = "easy" -> 0 [] level = "medium" -> 1 [] level = "hard" -> 2

\* getQuestions(level): the ids of `${level}.json`, in file order; ids are
\* unique across the files
GetQuestions(level) ==
  [k \in 1..QPerLevel |-> LevelIndex(level) * QPerLevel + k]

\* getUserQuestions(username): data[username] || []
GetUserQuestions(username) ==
  IF username \in DOMAIN userQuestions THEN userQuestions[username] ELSE <<>>

Includes(list, x) == \E i \in 1..Len(list) : list[i] = x

Ids(list) == {list[i] : i \in 1..Len(list)}

\* allQuestions.filter(q => !userQuestions.includes(q.id))
Unused(allQuestions, used) ==
  SelectSeq(allQuestions, LAMBDA id : ~Includes(used, id))

\* list.slice(0, count) and .limit(count), count >= 1
Slice(list, count) ==
  SubSeq(list, 1, IF count < Len(list) THEN count ELSE Len(list))

\* the ids returned to the user so far, with those of this response
Serve(username, ids) ==
  Put(served, username,
      (IF username \in DOMAIN served THEN served[username] ELSE {}) \cup ids)

\* POST /api/questions of the file-only server
QuestionsFile(username, level, count) ==
  /\ nreq' = nreq + 1
  /\ IF level \notin LEVELS
       THEN /\ resp' = [NoResp EXCEPT !.op = "questions", !.user = username,
                          !.level = level, !.count = count, !.code = 400]
            /\ UNCHANGED <<userQuestions, served>>
       ELSE LET used == GetUserQuestions(username)
                selected == Slice(Unused(GetQuestions(level), used), count)
            IN  /\ userQuestions' = Put(userQuestions, username, used \o selected)
                /\ served' = Serve(username, Ids(selected))
                /\ resp' = [NoResp EXCEPT !.op = "questions", !.user = username,
                              !.level = level, !.count = count, !.code = 200,
                              !.questions = selected]
  /\ UNCHANGED <<boardVars, Question, User, questionsFile, build>>

\* Question.find({ level, id: { $nin: answered } }).limit(count), the
\* documents in the order of their insertion
FindQuestions(level, answered, count) ==
  LET match == SelectSeq(Question,
                 LAMBDA d : d.level = level /\ ~Includes(answered, d.id))
  IN  Slice([i \in 1..Len(match) |-> match[i].id], count)

\* Question.insertMany(docs), ordered: the documents before the first one
\* whose id is already stored (id is a unique index) are inserted
InsertedPrefix(ids) ==
  LET stored == {Question[i].id : i \in 1..Len(Question)}
      dup == {i \in 1..Len(ids) : ids[i] \in stored}
  IN  IF dup = {} THEN ids
      ELSE SubSeq(ids, 1, (CHOOSE i \in dup : \A j \in dup : i <= j) - 1)

\* POST /api/questions of the dual-write server: MongoDB first, the files
\* when MongoDB has nothing for the user.  A username without a User
\* document: new User({ username, questionsAnswered: [] }) lacks the
\* required email and password, user.save() rejects and the catch block
\* answers 500.
QuestionsDual(username, level, count) ==
  /\ nreq' = nreq + 1
  /\ IF level \notin LEVELS
       THEN /\ resp' = [NoResp EXCEPT !.op = "questions", !.user = username,
                          !.level = level, !.count = count, !.code = 400]
            /\ UNCHANGED <<Question, User, userQuestions, served>>
     ELSE IF username \notin DOMAIN User
       THEN /\ resp' = [NoResp EXCEPT !.op = "questions", !.user = username,
                          !.level = level, !.count = count, !.code = 500]
            /\ UNCHANGED <<Question, User, userQuestions, served>>
     ELSE LET questions == FindQuestions(level, User[username], count)
              used == GetUserQuestions(username)
              selected == Slice(Unused(GetQuestions(level), used), count)
              inserted == InsertedPrefix(selected)
          IN  IF Len(questions) = 0
                THEN /\ userQuestions' = Put(userQuestions, username, used \o selected)
                     /\ Question' = Question \o
                          [i \in 1..Len(inserted) |->
                             [id |-> inserted[i], level |-> level]]
                     /\ IF inserted = selected
                          THEN /\ served' = Serve(username, Ids(selected))
                               /\ resp' = [NoResp EXCEPT !.op = "questions",
                                             !.user = username, !.level = level,
                                             !.count = count, !.code = 200,
                                             !.questions = selected]
                          ELSE /\ resp' = [NoResp EXCEPT !.op = "questions",
                                             !.user = username, !.level = level,
                                             !.count = count, !.code = 500]
                               /\ UNCHANGED served
                     /\ UNCHANGED User
                ELSE /\ User' = Put(User, username, User[username] \o questions)
                     /\ served' = Serve(username, Ids(questions))
                     /\ resp' = [NoResp EXCEPT !.op = "questions",
                                   !.user = username, !.level = level,
                                   !.count = count, !.code = 200,
                                   !.questions = questions]
                     /\ UNCHANGED <<Question, userQuestions>>
  /\ UNCHANGED <<boardVars, questionsFile, build>>

\* ------------------------------------------------------------------------
\* POST /api/game/questions

prizeStructure ==
  <<1000, 2000, 3000,
    5000, 10000, 20000, 50000, 100000, 200000,
    500000, 1000000, 2000000, 5000000, 10000000, 50000000, 700000000>>

\* faulty variant: the medium tier starts one position late
TierLateMedium(i) ==
  IF i > 3 /\ i < 9 THEN [timeLimit |-> 20, level |-> "medium"]
  ELSE IF i >= 9 THEN [timeLimit |-> 30, level |-> "hard"]
  ELSE [timeLimit |-> 10, level |-> "easy"]

\* time limit and level of the 0-based position i
Tier(i) ==
  IF i >= 3 /\ i < 9 THEN [timeLimit |-> 20, level |-> "medium"]
  ELSE IF i >= 9 THEN [timeLimit |-> 30, level |-> "hard"]
  ELSE [timeLimit |-> 10, level |-> "easy"]

\* the item pushed for question id at the 0-based position i; the padding
\* loop pushes prizeStructure[i] || 1000000
Item(id, i) ==
  [id |-> id, questionNumber |-> i + 1,
   timeLimit |-> Tier(i).timeLimit, level |-> Tier(i).level,
   prizeValue |-> IF i < Len(prizeStructure) THEN prizeStructure[i + 1]
                  ELSE 1000000]

\* faulty variant: a draw with replacement, every second element
ShuffledWithRepeats(questionsPool, offset, backward) ==
  LET n == Len(questionsPool)
  IN  [k \in 1..n |-> questionsPool[((offset + 2 * k) % n) + 1]]

\* [...questionsPool].sort(() => Math.random() - 0.5): a permutation of the
\* pool, here a rotation by offset, forward or backward
Shuffled(questionsPool, offset, backward) ==
  LET n == Len(questionsPool)
  IN  [k \in 1..n |->
         questionsPool[((offset + (IF backward THEN n - k ELSE k)) % n) + 1]]

\* getRandomQuestions(questionsPool, count)
getRandomQuestions(questionsPool, count, offset, backward) ==
  IF Len(questionsPool) <= count THEN questionsPool
  ELSE Slice(Shuffled(questionsPool, offset, backward), count)

\* faulty variant: the loop is entered on an empty catalog too
PaddingNeededAlways(allQuestions) == Len(allQuestions) < GameLength

\* while (allQuestions.length < 16 && allAvailableQuestions.length > 0)
PaddingNeeded(allQuestions) ==
  Len(allQuestions) < GameLength /\ Len(questionsFile) > 0

\* allQuestions.slice(0, 16) and res.json
BuildResponse(username, allQuestions) ==
  [NoResp EXCEPT !.op = "game/questions", !.user = username, !.code = 200,
                 !.questions = Slice(allQuestions, GameLength)]

\* the handler up to the padding loop, and through the response when the
\* loop is not entered.  A username without a User document: user.save() of
\* new User({ username, questionsAnswered: [] }) rejects (email and password
\* are required) and the catch block answers 500.
GameQuestions(username, offset, backward) ==
  /\ build.pc = "idle"
  /\ nreq' = nreq + 1
  /\ IF username \notin DOMAIN User
       THEN /\ resp' = [NoResp EXCEPT !.op = "game/questions",
                          !.user = username, !.code = 500]
            /\ UNCHANGED build
       ELSE LET selectedQuestions ==
                  getRandomQuestions(questionsFile, GameLength, offset, backward)
                allQuestions ==
                  [i \in 1..Len(selectedQuestions) |->
                     Item(selectedQuestions[i], i - 1)]
            IN  IF PaddingNeeded(allQuestions)
                  THEN /\ build' = [pc |-> "padding", user |-> username,
                                    allQuestions |-> allQuestions, randomQ |-> 0]
                       /\ UNCHANGED resp
                  ELSE /\ resp' = BuildResponse(username, allQuestions)
                       /\ UNCHANGED build
  /\ UNCHANGED <<boardVars, Question, User, userQuestions, served, questionsFile>>

\* one iteration of the padding loop: the question at the random index is
\* pushed unless its id is in allQuestions already; the loop condition is
\* tested again, and past the loop the handler answers
Pad(index) ==
  LET randomQ == questionsFile[index]
      isDuplicate == \E i \in 1..Len(build.allQuestions) :
                       build.allQuestions[i].id = randomQ
      allQuestions == IF isDuplicate THEN build.allQuestions
                      ELSE Append(build.allQuestions,
                                  Item(randomQ, Len(build.allQuestions)))
  IN  /\ build.pc = "padding"
      /\ IF PaddingNeeded(allQuestions)
           THEN /\ build' = [build EXCEPT !.allQuestions = allQuestions,
                                          !.randomQ = randomQ]
                /\ UNCHANGED resp
           ELSE /\ build' = NoBuild
                /\ resp' = BuildResponse(build.user, allQuestions)
      /\ UNCHANGED <<boardVars, Question, User, userQuestions, served,
                     questionsFile, nreq>>

\* ------------------------------------------------------------------------
\* POST /api/check-answer

\* the `answer` field stored with a catalog question
AnswerOf(id) == (id % NumOptions) + 1

Answers == 1..NumOptions

\* ids a request may carry: every catalog id and one id of no question
RequestIds == 1..(Cardinality(LEVELS) * QPerLevel + 1)

\* the handler of the file server and of the dual-write server
CheckAnswer(level, questionId, answer) ==
  /\ nreq' = nreq + 1
  /\ resp' =
       LET r == [NoResp EXCEPT !.op = "check-answer", !.level = level,
                   !.questionId = questionId, !.answer = answer]
       IN  IF level \notin LEVELS
             THEN [r EXCEPT !.code = 400]
             ELSE IF ~Includes(GetQuestions(level), questionId)
               THEN [r EXCEPT !.code = 404]
               ELSE LET isCorrect == AnswerOf(questionId) = answer
                    IN  [r EXCEPT !.code = 200, !.correct = isCorrect,
                           !.correctAnswer =
                             IF isCorrect THEN 0 ELSE AnswerOf(questionId)]
  /\ UNCHANGED <<boardVars, questionVars>>

\* the same handler in the MongoDB server: that file defines neither LEVELS
\* nor getQuestions, so evaluating the first condition throws a
\* ReferenceError and Express answers 500
CheckAnswerMongo(level, questionId, answer) ==
  /\ nreq' = nreq + 1
  /\ resp' = [NoResp EXCEPT !.op = "check-answer", !.level = level,
                !.questionId = questionId, !.answer = answer, !.code = 500]
  /\ UNCHANGED <<boardVars, questionVars>>

\* ------------------------------------------------------------------------
\* GET /api/stats/:username of the MongoDB server

\* stats.json entry of the user, or null (0)
getUserStats(username) ==
  IF username \in DOMAIN statsFile THEN [found |-> TRUE, stats |-> statsFile[username]]
                                   ELSE [found |-> FALSE, stats |-> 0]

GetStats(username) ==
  /\ nreq' = nreq + 1
  /\ resp' =
       LET stats == getUserStats(username)
       IN  IF ~stats.found
             THEN [NoResp EXCEPT !.op = "stats/:username", !.user = username,
                     !.code = 200, !.error = "No stats found", !.stats = 0]
             ELSE [NoResp EXCEPT !.op = "stats/:username", !.user = username,
                     !.code = 200, !.stats = stats.stats]
  /\ UNCHANGED <<boardVars, questionVars>>

\* ------------------------------------------------------------------------
\* POST /api/reset-questions

ResetQuestions(username) ==
  /\ nreq' = nreq + 1
  /\ userQuestions' = Put(userQuestions, username, <<>>)
  /\ resp' = [NoResp EXCEPT !.op = "reset-questions", !.user = username, !.code = 200]
  /\ UNCHANGED <<boardVars, Question, User, served, questionsFile, build>>

\* ------------------------------------------------------------------------
\* POST /api/questions of the dual-write server, one step per await

QIdle == [pc |-> "idle", user |-> 0, level |-> "none", count |-> 0,
          answered |-> <<>>, questions |-> <<>>]

QuestionsResp(q, code, questions) ==
  [NoResp EXCEPT !.op = "questions", !.user = q.user, !.level = q.level,
                 !.count = q.count, !.code = code, !.questions = questions]

\* the request arrives; an invalid level is answered at once
QReceive(r, username, level, count) ==
  /\ reqs[r].pc = "idle"
  /\ \A k \in 1..(r - 1) : reqs[k].pc # "idle"
  /\ nreq' = nreq + 1
  /\ IF level \notin LEVELS
       THEN /\ resp' = [NoResp EXCEPT !.op = "questions", !.user = username,
                          !.level = level, !.count = count, !.code = 400]
            /\ UNCHANGED reqs
       ELSE /\ reqs' = [reqs EXCEPT ![r] = [QIdle EXCEPT !.pc = "findUser",
                          !.user = username, !.level = level, !.count = count]]
            /\ UNCHANGED resp
  /\ UNCHANGED <<Leaderboard, lbEntries, lbFile, Stats, statsFile, hist, subs,
                 plan, questionVars>>

\* User.findOne({ username }) answers; a user without a document is
\* created without the required fields, save() rejects, the answer is 500
QFindUser(r) ==
  LET q == reqs[r]
  IN  /\ q.pc = "findUser"
      /\ IF q.user \in DOMAIN User
           THEN /\ reqs' = [reqs EXCEPT ![r] = [q EXCEPT !.pc = "findQuestions",
                                                   !.answered = User[q.user]]]
                /\ UNCHANGED resp
           ELSE /\ reqs' = [reqs EXCEPT ![r] = QIdle]
                /\ resp' = QuestionsResp(q, 500, <<>>)
      /\ UNCHANGED <<Leaderboard, lbEntries, lbFile, Stats, statsFile, nreq, hist,
                     subs, plan, questionVars>>

\* Question.find(...) answers.  With a match the ids are pushed in memory up
\* to `await user.save()`.  With none the handler reads the level file,
\* writes user_questions.json and goes on to `await insertMany`, or answers
\* the empty selection.
QFindQuestions(r) ==
  LET q == reqs[r]
      questions == FindQuestions(q.level, q.answered, q.count)
      used == GetUserQuestions(q.user)
      selected == Slice(Unused(GetQuestions(q.level), used), q.count)
  IN  /\ q.pc = "findQuestions"
      /\ IF Len(questions) > 0
           THEN /\ reqs' = [reqs EXCEPT ![r] = [q EXCEPT !.pc = "saveUser",
                                                   !.questions = questions]]
                /\ UNCHANGED <<userQuestions, resp, served>>
           ELSE /\ userQuestions' = Put(userQuestions, q.user, used \o selected)
                /\ IF Len(selected) > 0
                     THEN /\ reqs' = [reqs EXCEPT ![r] =
                                [q EXCEPT !.pc = "insertMany", !.questions = selected]]
                          /\ UNCHANGED <<resp, served>>
                     ELSE /\ reqs' = [reqs EXCEPT ![r] = QIdle]
                          /\ resp' = QuestionsResp(q, 200, <<>>)
                          /\ UNCHANGED served
      /\ UNCHANGED <<boardVars_noReqs, nreq, Question, User, questionsFile, build>>

\* Question.insertMany(questionDocs) completes: the unique index on id
\* stops it at the first stored id and the answer is 500
QInsertMany(r) ==
  LET q == reqs[r]
      inserted == InsertedPrefix(q.questions)
  IN  /\ q.pc = "insertMany"
      /\ Question' = Question \o
           [i \in 1..Len(inserted) |-> [id |-> inserted[i], level |-> q.level]]
      /\ reqs' = [reqs EXCEPT ![r] = QIdle]
      /\ IF inserted = q.questions
           THEN /\ served' = Serve(q.user, Ids(q.questions))
                /\ resp' = QuestionsResp(q, 200, q.questions)
           ELSE /\ resp' = QuestionsResp(q, 500, <<>>)
                /\ UNCHANGED served
      /\ UNCHANGED <<boardVars_noReqs, nreq, User, userQuestions, questionsFile, build>>

\* user.save() completes: the pushed ids are sent as a $push, which appends
\* to the stored array whatever it holds, and the questions are returned
QSaveUser(r) ==
  LET q == reqs[r]
  IN  /\ q.pc = "saveUser"
      /\ User' = Put(User, q.user, User[q.user] \o q.questions)
      /\ served' = Serve(q.user, Ids(q.questions))
      /\ reqs' = [reqs EXCEPT ![r] = QIdle]
      /\ resp' = QuestionsResp(q, 200, q.questions)
      /\ UNCHANGED <<boardVars_noReqs, nreq, Question, userQuestions, questionsFile, build>>

\* ------------------------------------------------------------------------
\* POST /api/game/complete with a body that has no finalPrize

\* faulty variant: the leaderboard branch taken without the test of
\* finalPrize, as POST /api/complete-game does
GameCompleteMissingPrizeWrites(u, qa, ca, gameCompleted) ==
  /\ nreq' = nreq + 1
  /\ Stats' = RecordCompletion(Stats, u, qa, ca, 0, gameCompleted)
  /\ hist' = Put(hist, u, AddHist(IF u \in DOMAIN hist THEN hist[u] ELSE NoHist,
                                  qa, ca, 0, gameCompleted))
  /\ LET old == FindOneList(Leaderboard)
         newId == NextEntryId(old)
         list == PushEntry(old, newId, u, 0)
     IN  /\ Leaderboard' = SaveList(Leaderboard, list)
         /\ resp' = [NoResp EXCEPT !.op = "game/complete", !.user = u,
                       !.code = 200, !.body = "noFinalPrize",
                       !.wroteLeaderboard = TRUE, !.newId = newId,
                       !.leaderboardPosition = LeaderboardPosition(list, newId)]
  /\ UNCHANGED <<lbEntries, lbFile, statsFile, subs, plan, reqs, questionVars>>

\* `finalPrize || 0` is 0 in the Stats update and `undefined > 0` is false:
\* the leaderboard branch is skipped
GameCompleteMissingPrize(u, qa, ca, gameCompleted) ==
  /\ nreq' = nreq + 1
  /\ Stats' = RecordCompletion(Stats, u, qa, ca, 0, gameCompleted)
  /\ hist' = Put(hist, u, AddHist(IF u \in DOMAIN hist THEN hist[u] ELSE NoHist,
                                  qa, ca, 0, gameCompleted))
  /\ resp' = [NoResp EXCEPT !.op = "game/complete", !.user = u, !.code = 200,
                !.body = "noFinalPrize"]
  /\ UNCHANGED <<Leaderboard, lbEntries, lbFile, statsFile, subs, plan, reqs,
                 questionVars>>

\* ------------------------------------------------------------------------
\* POST /api/stats of the dual-write server with the score as the JSON body
\* carries it: a number, or a string of decimal digits

TypedScores == [n : 0..MaxTypedScore, str : BOOLEAN]

\* Number(score): the cast of the Number path of the entries schema
ToNumber(score) == score.n

RECURSIVE Digits(_)
\* the decimal digits of n, the characters of String(n)
Digits(n) == IF n < 10 THEN <<n>> ELSE Append(Digits(n \div 10), n % 10)

\* string comparison a > b, character by character
StringGreater(a, b) ==
  \E k \in 1..Len(a) :
    /\ \A i \in 1..(k - 1) : i <= Len(b) /\ a[i] = b[i]
    /\ k > Len(b) \/ a[k] > b[k]

\* a > b of JavaScript: two strings are compared as strings, otherwise both
\* operands are converted to numbers
Greater(a, b) ==
  IF a.str /\ b.str THEN StringGreater(Digits(a.n), Digits(b.n))
                    ELSE ToNumber(a) > ToNumber(b)

\* updateLeaderboard on leaderboard.json, which keeps the score as received;
\* b.score - a.score converts both to numbers
UpdateLeaderboardTyped(list, username, score) ==
  LET userIndex == FindIndexByUsername(list, username)
      leaderboardEntry == [username |-> username, score |-> score]
      merged == IF userIndex >= 0
                  THEN IF Greater(score, list[userIndex + 1].score)
                         THEN [list EXCEPT ![userIndex + 1] = leaderboardEntry]
                         ELSE list
                  ELSE Append(list, leaderboardEntry)
  IN  KeepTop(SortSeq(merged, LAMBDA a, b : ToNumber(a.score) > ToNumber(b.score)))

\* the request: the entries array stores the cast score and compares the
\* received score with a stored number; the file keeps the received score
PostStatsTyped(username, score) ==
  /\ nreq' = nreq + 1
  /\ lbEntries' = UpsertEntries(lbEntries, username, ToNumber(score))
  /\ statsFile' = Put(statsFile, username, score)
  /\ lbFile' = UpdateLeaderboardTyped(lbFile, username, score)
  /\ resp' = [NoResp EXCEPT !.op = "stats", !.user = username,
                !.prize = ToNumber(score), !.code = 200, !.wroteLeaderboard = TRUE]
  /\ UNCHANGED <<Leaderboard, Stats, hist, subs, plan, reqs, questionVars>>

\* ------------------------------------------------------------------------
\* Specifications

NoPlan == [endpoint |-> "any", m |-> 1, desc |-> FALSE]

\* A fresh installation: empty collections, no JSON files.
Init ==
  /\ Leaderboard = <<>>
  /\ lbEntries = <<>>
  /\ lbFile = <<>>
  /\ Stats = <<>>
  /\ statsFile = <<>>
  /\ resp = NoResp
  /\ nreq = 0
  /\ hist = <<>>
  /\ subs = [mongo |-> <<>>, scores |-> <<>>]
  /\ plan = NoPlan
  /\ reqs = NoReqs
  /\ NoQuestions

\* The leaderboard endpoints; the counts of a completion, which no
\* leaderboard depends on, are fixed here and vary in SpecStats.
Next ==
  \/ \E u \in Users, finalPrize \in Prizes :
       /\ nreq < MaxRequests
       /\ GameComplete(u, MaxAnswered, MaxAnswered, finalPrize, TRUE)
  \/ \E u \in Users, prizeWon \in Prizes :
       nreq < MaxRequests /\ CompleteGame(u, prizeWon)
  \/ \E u \in Users, score \in Prizes :
       nreq < MaxRequests /\ PostStats(u, score)
  \/ nreq < MaxRequests /\ GetLeaderboard

Spec == Init /\ [][Next]_vars

\* Completion events with every combination of counts, prize and flag.
NextStats ==
  /\ nreq < MaxStatsRequests
  /\ \E u \in Users, qa \in Answered, finalPrize \in Prizes, done \in BOOLEAN :
       \E ca \in 0..qa : GameComplete(u, qa, ca, finalPrize, done)

SpecStats == Init /\ [][NextStats]_vars

\* Leaderboards already filled by n earlier players, n = TopN - 1 or TopN,
\* through complete-game and stats requests in descending order of prize.
Filler(k) == NumUsers + k
PrefillPrize(k) == IF 2 * k <= TopN THEN 2 ELSE 1

PrefilledList(n) ==
  [k \in 1..n |-> [id |-> k, userId |-> Filler(k), prizeWon |-> PrefillPrize(k)]]

PrefilledScores(n) ==
  [k \in 1..n |-> [username |-> Filler(k), score |-> PrefillPrize(k)]]

InitFull ==
  /\ \E n \in {TopN - 1, TopN} :
       /\ Leaderboard = <<[leaderboard |-> PrefilledList(n), v |-> n - 1]>>
       /\ lbEntries = PrefilledScores(n)
       /\ lbFile = PrefilledScores(n)
       /\ statsFile = [p \in {Filler(k) : k \in 1..n} |->
                         PrefillPrize(p - NumUsers)]
       /\ subs = [mongo |-> [k \in 1..n |-> <<Filler(k), PrefillPrize(k)>>],
                  scores |-> [k \in 1..n |-> <<Filler(k), PrefillPrize(k)>>]]
  /\ Stats = <<>>
  /\ resp = NoResp
  /\ nreq = 0
  /\ hist = <<>>
  /\ plan = NoPlan
  /\ reqs = NoReqs
  /\ NoQuestions

NextFull ==
  \/ \E u \in Users, finalPrize \in Prizes :
       /\ nreq < MaxFullRequests
       /\ GameComplete(u, MaxAnswered, MaxAnswered, finalPrize, TRUE)
  \/ \E u \in Users, prizeWon \in Prizes :
       nreq < MaxFullRequests /\ CompleteGame(u, prizeWon)
  \/ \E u \in Users, score \in Prizes :
       nreq < MaxFullRequests /\ PostStats(u, score)
  \/ nreq < MaxFullRequests /\ GetLeaderboard

SpecFull == InitFull /\ [][NextFull]_vars

\* From empty leaderboards, TopN + Extra players submit one score each, all
\* through one endpoint.  The scores are pairwise distinct: player k submits
\* k * m modulo the prime TopN + 7, or the prime minus that.
Modulus == TopN + 7

PlanScore(k) ==
  LET s == (k * plan.m) % Modulus IN IF plan.desc THEN Modulus - s ELSE s

InitTrunc ==
  /\ Leaderboard = <<>>
  /\ lbEntries = <<>>
  /\ lbFile = <<>>
  /\ Stats = <<>>
  /\ statsFile = <<>>
  /\ resp = NoResp
  /\ nreq = 0
  /\ hist = <<>>
  /\ subs = [mongo |-> <<>>, scores |-> <<>>]
  /\ plan \in [endpoint : {"game/complete", "complete-game", "stats"},
                m : 1..MaxMultiplier, desc : BOOLEAN]
  /\ reqs = NoReqs
  /\ NoQuestions

NextTrunc ==
  \/ /\ nreq < TopN + Extra
     /\ plan.endpoint = "game/complete"
     /\ GameComplete(nreq + 1, MaxAnswered, MaxAnswered, PlanScore(nreq + 1), TRUE)
  \/ /\ nreq < TopN + Extra
     /\ plan.endpoint = "complete-game"
     /\ CompleteGame(nreq + 1, PlanScore(nreq + 1))
  \/ /\ nreq < TopN + Extra
     /\ plan.endpoint = "stats"
     /\ PostStats(nreq + 1, PlanScore(nreq + 1))

SpecTrunc == InitTrunc /\ [][NextTrunc]_vars

\* Up to MaxConcRequests completions of finished games on NumSlots
\* connections, their steps interleaved in every way.
NextConc ==
  \/ \E r \in Slots, u \in Users, qa \in Answered, finalPrize \in Prizes :
       nreq < MaxConcRequests /\ Receive(r, u, qa, qa, finalPrize, TRUE)
  \/ \E r \in Slots : FindStats(r)
  \/ \E r \in Slots : SaveStats(r)
  \/ \E r \in Slots : FindLastStat(r)
  \/ \E r \in Slots : InsertStats(r)
  \/ \E r \in Slots : FindLeaderboard(r)
  \/ \E r \in Slots : SaveLeaderboard(r)

SpecConc == Init /\ [][NextConc]_vars

\* Completions whose body carries a numeric completionTime and completions
\* whose body does not.
NextFail ==
  \/ \E u \in Users, finalPrize \in Prizes :
       /\ nreq < MaxRequests
       /\ GameComplete(u, MaxAnswered, MaxAnswered, finalPrize, TRUE)
  \/ \E u \in Users, finalPrize \in Prizes :
       /\ nreq < MaxRequests
       /\ GameCompleteNoTime(u, MaxAnswered, MaxAnswered, finalPrize, TRUE)

SpecFail == Init /\ [][NextFail]_vars

\* every question of the level files, as import-data stores them
Imported ==
  [k \in 1..(3 * QPerLevel) |->
     [id |-> k,
      level |-> IF k <= QPerLevel THEN "easy"
                ELSE IF k <= 2 * QPerLevel THEN "medium" ELSE "hard"]]

\* The file-only server: no record of served questions yet.
InitQFile == Init

NextQFile ==
  \E u \in Users, level \in RequestLevels, count \in Counts :
    nreq < MaxQRequests /\ QuestionsFile(u, level, count)

SpecQFile == InitQFile /\ [][NextQFile]_vars

\* The dual-write server: some of the users are registered, the Question
\* collection is empty or holds the imported level files.
InitQDual ==
  /\ Leaderboard = <<>>
  /\ lbEntries = <<>>
  /\ lbFile = <<>>
  /\ Stats = <<>>
  /\ statsFile = <<>>
  /\ resp = NoResp
  /\ nreq = 0
  /\ hist = <<>>
  /\ subs = [mongo |-> <<>>, scores |-> <<>>]
  /\ plan = NoPlan
  /\ reqs = NoReqs
  /\ Question \in {<<>>, Imported}
  /\ \E registered \in SUBSET Users : User = [u \in registered |-> <<>>]
  /\ userQuestions = <<>>
  /\ served = <<>>
  /\ questionsFile = <<>>
  /\ build = NoBuild

NextQDual ==
  \E u \in Users, level \in RequestLevels, count \in Counts :
    nreq < MaxQRequests /\ QuestionsDual(u, level, count)

SpecQDual == InitQDual /\ [][NextQDual]_vars

\* Requests that a validation would reject, among requests that are valid.
NextValid ==
  \/ \E u \in Users, level \in RequestLevels, count \in Counts :
       nreq < MaxRequests /\ QuestionsDual(u, level, count)
  \/ \E u \in Users, level \in RequestLevels, count \in Counts :
       nreq < MaxRequests /\ QuestionsFile(u, level, count)
  \/ \E u \in Users, finalPrize \in Prizes :
       /\ nreq < MaxRequests
       /\ GameComplete(u, MaxAnswered, MaxAnswered, finalPrize, TRUE)
  \/ \E u \in Users : nreq < MaxRequests /\ GameCompleteEmptyBody(u)

SpecValid == InitQDual /\ [][NextValid]_vars

\* questions.json holds 0 to GameLength + ExtraQuestions questions with the
\* ids 1, 2, ...; some of the users are registered.
InitBuild ==
  /\ Leaderboard = <<>>
  /\ lbEntries = <<>>
  /\ lbFile = <<>>
  /\ Stats = <<>>
  /\ statsFile = <<>>
  /\ resp = NoResp
  /\ nreq = 0
  /\ hist = <<>>
  /\ subs = [mongo |-> <<>>, scores |-> <<>>]
  /\ plan = NoPlan
  /\ reqs = NoReqs
  /\ Question = <<>>
  /\ \E registered \in SUBSET Users : User = [u \in registered |-> <<>>]
  /\ userQuestions = <<>>
  /\ served = <<>>
  /\ \E n \in 0..(GameLength + ExtraQuestions) : questionsFile = [k \in 1..n |-> k]
  /\ build = NoBuild

NextBuild ==
  \/ \E u \in Users, offset \in 0..(GameLength + ExtraQuestions),
        backward \in BOOLEAN :
       nreq < MaxBuildRequests /\ GameQuestions(u, offset, backward)
  \/ \E index \in 1..Len(questionsFile) : Pad(index)

SpecBuild == InitBuild /\ [][NextBuild]_vars

\* the MongoDB server: completions and reads of a user's stats
NextGetStats ==
  \/ \E u \in Users, finalPrize \in Prizes :
       /\ nreq < MaxRequests
       /\ GameComplete(u, MaxAnswered, MaxAnswered, finalPrize, TRUE)
  \/ \E u \in Users : nreq < MaxRequests /\ GetStats(u)

SpecGetStats == Init /\ [][NextGetStats]_vars

\* question requests and resets of a user's record
NextReset ==
  \/ \E u \in Users, level \in RequestLevels, count \in Counts :
       nreq < MaxQRequests /\ QuestionsDual(u, level, count)
  \/ \E u \in Users : nreq < MaxQRequests /\ ResetQuestions(u)

SpecReset == InitQDual /\ [][NextReset]_vars

\* question requests in flight together, against a populated Question
\* collection and registered users
InitQConc ==
  /\ Leaderboard = <<>>
  /\ lbEntries = <<>>
  /\ lbFile = <<>>
  /\ Stats = <<>>
  /\ statsFile = <<>>
  /\ resp = NoResp
  /\ nreq = 0
  /\ hist = <<>>
  /\ subs = [mongo |-> <<>>, scores |-> <<>>]
  /\ plan = NoPlan
  /\ reqs = [r \in Slots |-> QIdle]
  /\ Question = Imported
  /\ \E registered \in SUBSET Users : User = [u \in registered |-> <<>>]
  /\ userQuestions = <<>>
  /\ served = <<>>
  /\ questionsFile = <<>>
  /\ build = NoBuild

NextQConc ==
  \/ \E r \in Slots, u \in Users, level \in RequestLevels, count \in Counts :
       nreq < MaxQConcRequests /\ QReceive(r, u, level, count)
  \/ \E r \in Slots : QFindUser(r)
  \/ \E r \in Slots : QFindQuestions(r)
  \/ \E r \in Slots : QInsertMany(r)
  \/ \E r \in Slots : QSaveUser(r)

SpecQConc == InitQConc /\ [][NextQConc]_vars

\* completions with a positive, zero, negative or missing finalPrize
RequestPrizes == (0 - MinPrize)..MaxPrize

NextPrize ==
  \/ \E u \in Users, qa \in Answered, finalPrize \in RequestPrizes :
       /\ nreq < MaxRequests
       /\ GameComplete(u, qa, qa, finalPrize, TRUE)
  \/ \E u \in Users, qa \in Answered :
       /\ nreq < MaxRequests
       /\ GameCompleteMissingPrize(u, qa, qa, TRUE)

SpecPrize == Init /\ [][NextPrize]_vars

\* stats submissions of the dual-write server, from empty leaderboards
NextTyped ==
  \E u \in Users, score \in TypedScores :
    nreq < MaxStatsRequests /\ PostStatsTyped(u, score)

SpecTyped == Init /\ [][NextTyped]_vars

\* answer checks against the handlers of the three servers
NextCheck ==
  \E level \in RequestLevels, questionId \in RequestIds, answer \in Answers :
    /\ nreq < MaxCheckRequests
    /\ \/ CheckAnswer(level, questionId, answer)
       \/ CheckAnswerMongo(level, questionId, answer)

SpecCheck == Init /\ [][NextCheck]_vars

\* ------------------------------------------------------------------------
\* Properties

MongoList == FindOneList(Leaderboard)

\* the entry the last completion request created
Mine == [id |-> resp.newId, userId |-> resp.user, prizeWon |-> resp.prize]

NonIncreasing(keys) == \A i \in 1..(Len(keys) - 1) : keys[i] >= keys[i + 1]

PrizesOf(list) == [i \in 1..Len(list) |-> list[i].prizeWon]
ScoresOf(list) == [i \in 1..Len(list) |-> list[i].score]

\* C1: best score wins per identity.  A submission for an identity that has
\* an entry with a score at least as high leaves the stored leaderboard as
\* it was (stated for the three leaderboards; an action property).
C1_BestScoreWins ==
  [][/\ ( /\ nreq' = nreq + 1
          /\ resp'.op \in {"game/complete", "complete-game"}
          /\ resp'.wroteLeaderboard
          /\ \E i \in 1..Len(MongoList) :
                /\ MongoList[i].userId = resp'.user
                /\ MongoList[i].prizeWon >= resp'.prize )
        => FindOneList(Leaderboard') = MongoList
     /\ ( /\ nreq' = nreq + 1
          /\ resp'.op = "stats"
          /\ \E i \in 1..Len(lbFile) :
                lbFile[i].username = resp'.user /\ lbFile[i].score >= resp'.prize )
        => lbFile' = lbFile
     /\ ( /\ nreq' = nreq + 1
          /\ resp'.op = "stats"
          /\ \E i \in 1..Len(lbEntries) :
                /\ lbEntries[i].username = resp'.user
                /\ lbEntries[i].score >= resp'.prize )
        => lbEntries' = lbEntries
    ]_vars

\* C2: every leaderboard holds at most one entry per identity (userId in the
\* MongoDB leaderboard array, username in the entries array and the file).
C2_OneEntryPerIdentity ==
  /\ \A i, j \in 1..Len(MongoList) :
       MongoList[i].userId = MongoList[j].userId => i = j
  /\ \A i, j \in 1..Len(lbEntries) :
       lbEntries[i].username = lbEntries[j].username => i = j
  /\ \A i, j \in 1..Len(lbFile) :
       lbFile[i].username = lbFile[j].username => i = j

\* C3: every stored leaderboard has at most 100 (TopN) entries.
C3_AtMostTopN ==
  /\ \A d \in 1..Len(Leaderboard) : Len(Leaderboard[d].leaderboard) <= TopN
  /\ Len(lbEntries) <= TopN
  /\ Len(lbFile) <= TopN

\* a write on a full list: the entry of the request itself was cut off
C3_Witness ==
  /\ resp.op = "complete-game"
  /\ Len(MongoList) = TopN
  /\ \A i \in 1..Len(MongoList) : MongoList[i].id # resp.newId

\* C4: every stored leaderboard is sorted in non-increasing order of its
\* ranking field (prizeWon, score).
C4_SortedDescending ==
  /\ \A d \in 1..Len(Leaderboard) :
       NonIncreasing(PrizesOf(Leaderboard[d].leaderboard))
  /\ NonIncreasing(ScoresOf(lbEntries))
  /\ NonIncreasing(ScoresOf(lbFile))

\* an entry created later ranks before an earlier one with a lower prize
C4_Witness ==
  /\ Len(MongoList) >= 2
  /\ MongoList[1].id > MongoList[2].id
  /\ MongoList[1].prizeWon > MongoList[2].prizeWon
  /\ resp.op \in {"game/complete", "complete-game"}

\* the submissions h came from pairwise distinct identities with pairwise
\* distinct scores
DistinctSubmissions(h) ==
  \A i, j \in 1..Len(h) : i # j => h[i][1] # h[j][1] /\ h[i][2] # h[j][2]

\* the pairs kept are TopN of the pairs submitted, and every pair that is
\* gone has a lower score than every pair kept
KeepsBest(kept, h) ==
  LET all == {h[i] : i \in 1..Len(h)}
      stored == {kept[i] : i \in 1..Len(kept)}
  IN  /\ Len(kept) = TopN
      /\ Cardinality(stored) = TopN
      /\ stored \subseteq all
      /\ \A g \in all \ stored : \A k \in stored : g[2] < k[2]

\* C5: after more than TopN submissions from distinct identities with
\* distinct scores, starting from empty, a leaderboard holds exactly TopN
\* entries, the TopN highest submitted; the lowest ones are absent.
C5_TruncationKeepsBest ==
  /\ (Len(subs.mongo) > TopN /\ DistinctSubmissions(subs.mongo))
       => KeepsBest([i \in 1..Len(MongoList) |->
                       <<MongoList[i].userId, MongoList[i].prizeWon>>], subs.mongo)
  /\ (Len(subs.scores) > TopN /\ DistinctSubmissions(subs.scores))
       => /\ KeepsBest([i \in 1..Len(lbFile) |->
                          <<lbFile[i].username, lbFile[i].score>>], subs.scores)
          /\ KeepsBest([i \in 1..Len(lbEntries) |->
                          <<lbEntries[i].username, lbEntries[i].score>>],
                       subs.scores)

\* TopN + Extra scores arrived in an order that is neither ascending nor
\* descending, and TopN are left
C5_Witness ==
  /\ Len(subs.mongo) = TopN + Extra
  /\ DistinctSubmissions(subs.mongo)
  /\ plan.m > 1
  /\ Len(MongoList) = TopN

\* C6: the leaderboardPosition of a completion that wrote the leaderboard is
\* the 1-based index of the entry this request created in the stored list,
\* and 0 (unranked) exactly when that entry is not in the stored list.
C6_PositionOfOwnEntry ==
  (resp.op \in {"game/complete", "complete-game"} /\ resp.wroteLeaderboard)
    => /\ resp.leaderboardPosition \in 0..Len(MongoList)
       /\ resp.leaderboardPosition > 0
            => MongoList[resp.leaderboardPosition] = Mine
       /\ resp.leaderboardPosition = 0
            => \A i \in 1..Len(MongoList) : MongoList[i] # Mine

\* a completion whose entry was cut off by the truncation
C6_Witness ==
  /\ resp.op = "game/complete"
  /\ resp.wroteLeaderboard
  /\ resp.leaderboardPosition = 0
  /\ Len(MongoList) = TopN

\* C7: GET /api/leaderboard right after a game/complete whose entry ranks
\* inside the top 100 returns the stored list, which contains that entry
\* (an action property: the step is the GET request).
C7_GetReturnsCompletions ==
  [][( /\ resp.op = "game/complete"
       /\ resp.leaderboardPosition > 0
       /\ nreq' = nreq + 1
       /\ resp'.op = "leaderboard" )
      => /\ resp'.hasLeaderboard
         /\ resp'.leaderboard = MongoList
         /\ \E i \in 1..Len(resp'.leaderboard) : resp'.leaderboard[i] = Mine
         /\ Len(resp'.leaderboard) <= TopN
    ]_vars

\* C8: the Stats record of a user is the sum of the user's completion
\* events: gamesPlayed their number, gamesCompleted those with the flag set,
\* totalPrizeMoney and questionsAnswered the sums; a user has a record iff it
\* has an event, and the first event initialises the record from its delta.
C8_StatsCumulative ==
  /\ DOMAIN Stats = DOMAIN hist
  /\ \A u \in DOMAIN hist :
       /\ Stats[u].gamesPlayed = hist[u].games
       /\ Stats[u].gamesCompleted = hist[u].completed
       /\ Stats[u].totalPrizeMoney = hist[u].prize
       /\ Stats[u].questionsAnswered = hist[u].answered
       /\ hist[u].games = 1
            => Stats[u].accuracy =
                 IF hist[u].answered > 0
                   THEN RoundPct(hist[u].correct, hist[u].answered) ELSE 0

\* two events of one user, one of them not completed
C8_Witness ==
  \E u \in DOMAIN hist :
    /\ hist[u].games = 2
    /\ hist[u].completed = 1
    /\ hist[u].prize > 0
    /\ hist[u].answered > 0
    /\ Stats[u].gamesPlayed = 2

\* C9: the stored accuracy is round(100 * cumulative correct / cumulative
\* answered) over all the games of the user, 0 when nothing was answered.
C9_AccuracyCumulative ==
  \A u \in DOMAIN Stats :
    Stats[u].accuracy =
      IF hist[u].answered > 0
        THEN RoundPct(hist[u].correct, hist[u].answered) ELSE 0


\* no request is between two of its steps
Quiescent == \A r \in Slots : reqs[r].pc = "idle"

\* C10: no lost update on Stats.  When the completion requests whose steps
\* interleaved have all ended, the Stats record of a user holds every delta
\* whose write was accepted: gamesPlayed counts them, gamesCompleted,
\* totalPrizeMoney and questionsAnswered are their sums (the result of
\* applying them in any serial order).
C10_NoLostUpdate ==
  Quiescent =>
    \A u \in DOMAIN hist :
      /\ u \in DOMAIN Stats
      /\ Stats[u].gamesPlayed = hist[u].games
      /\ Stats[u].gamesCompleted = hist[u].completed
      /\ Stats[u].totalPrizeMoney = hist[u].prize
      /\ Stats[u].questionsAnswered = hist[u].answered

\* C11: no lost or stale leaderboard write under concurrency.  The step in
\* which a request's leaderboard.save() completes leaves the stored list as
\* the submission applied to the list stored at that moment, whatever older
\* list the request had read; the final list is then the submissions
\* applied in the serial order of their saves.
C11_NoLostLeaderboardWrite ==
  [][\A r \in Slots :
       (reqs[r].pc = "saveLeaderboard" /\ reqs'[r].pc = "idle")
         => FindOneList(Leaderboard') =
              PushEntry(MongoList, NextEntryId(MongoList),
                        reqs[r].user, reqs[r].prize)
    ]_vars

\* C12: a completion is all-or-nothing across Stats and Leaderboard.  A
\* POST /api/game/complete request that answers with a server error leaves
\* the Stats collection and the Leaderboard collection as they were before
\* the request (an action property: the step is the request).
C12_AllOrNothing ==
  [][(nreq' = nreq + 1 /\ resp'.op = "game/complete" /\ resp'.code = 500)
       => (Stats' = Stats /\ Leaderboard' = Leaderboard)
    ]_vars

\* C13: validation failures have no side effects.  A question request that
\* names a level outside easy/medium/hard, and a completion request without
\* the count and prize fields, are answered 400 and leave the served-id
\* records, the User and Question collections, the Stats records and the
\* leaderboards as they were (an action property: the step is the request).
C13_ValidationNoSideEffects ==
  [][( /\ nreq' = nreq + 1
       /\ \/ resp'.op = "questions" /\ resp'.level \notin LEVELS
          \/ resp'.op = "game/complete" /\ resp'.body = "empty" )
      => /\ resp'.code = 400
         /\ UNCHANGED <<userQuestions, User, Question, Stats, statsFile,
                        Leaderboard, lbEntries, lbFile>>
    ]_vars

\* the user of the game/questions request last begun
Requester == IF build.pc = "padding" THEN build.user ELSE resp.user

\* a game/questions request was answered with a session
Answered200 == resp.op = "game/questions" /\ resp.code = 200

\* C14: with a catalog of at least 16 questions the session has exactly 16
\* items numbered 1..16; positions 1-3 are easy with 10 s, 4-9 medium with
\* 20 s, 10-16 hard with 30 s; position k carries the k-th value of the
\* prize ladder, which rises from 1,000 (3,000 at 3, 5,000 at 4, 200,000 at
\* 9, 500,000 at 10) to 700,000,000; the padding loop is not entered.
C14_SessionShape ==
  Len(questionsFile) >= GameLength =>
    /\ build.pc = "idle"
    /\ Answered200 =>
         /\ Len(resp.questions) = 16
         /\ \A k \in 1..Len(resp.questions) :
              LET item == resp.questions[k]
              IN  /\ item.questionNumber = k
                  /\ k <= 3 => item.level = "easy" /\ item.timeLimit = 10
                  /\ (k >= 4 /\ k <= 9) =>
                       item.level = "medium" /\ item.timeLimit = 20
                  /\ k >= 10 => item.level = "hard" /\ item.timeLimit = 30
                  /\ item.prizeValue = prizeStructure[k]
                  /\ k > 1 => item.prizeValue > resp.questions[k - 1].prizeValue
         /\ resp.questions[1].prizeValue = 1000
         /\ resp.questions[3].prizeValue = 3000
         /\ resp.questions[4].prizeValue = 5000
         /\ resp.questions[9].prizeValue = 200000
         /\ resp.questions[10].prizeValue = 500000
         /\ resp.questions[16].prizeValue = 700000000

\* a session drawn from a catalog of more than 16 questions, not in file order
C14_Witness ==
  /\ Answered200
  /\ Len(questionsFile) > GameLength
  /\ Len(resp.questions) = GameLength
  /\ resp.questions[1].id # questionsFile[1]

\* C15: the game session builder terminates.  The padding loop ends once
\* the catalog is exhausted: while the loop runs, the catalog holds a
\* question that is not among the items yet, so that a draw can add one.
C15_PaddingEndsWhenExhausted ==
  build.pc = "padding" =>
    \E index \in 1..Len(questionsFile) :
      \A i \in 1..Len(build.allQuestions) :
        build.allQuestions[i].id # questionsFile[index]

\* C16: with an empty catalog, a game/questions request of a user that has
\* a User document is answered 200 with an empty question list, and no
\* store changes (an action property: the step is the request).
C16_EmptyCatalog ==
  [][(nreq' = nreq + 1 /\ questionsFile = <<>> /\ Requester' \in DOMAIN User)
       => /\ resp'.op = "game/questions"
          /\ resp'.code = 200
          /\ resp'.questions = <<>>
          /\ build' = NoBuild
          /\ UNCHANGED <<boardVars, Question, User, userQuestions, questionsFile>>
    ]_vars

\* an empty session answered from an empty catalog
C16_Witness ==
  /\ Answered200
  /\ questionsFile = <<>>
  /\ resp.questions = <<>>
  /\ resp.user \in DOMAIN User

\* the ids of the items are pairwise distinct and belong to the catalog
DistinctFromCatalog(items) ==
  /\ \A i, j \in 1..Len(items) : items[i].id = items[j].id => i = j
  /\ \A i \in 1..Len(items) : Includes(questionsFile, items[i].id)

\* C17: a game session never contains the same question twice.  With unique
\* ids in the catalog, the ids of a returned session, and of the items
\* gathered while the padding loop runs, are pairwise distinct and all
\* belong to the catalog.
C17_NoDuplicateQuestion ==
  /\ Answered200 => DistinctFromCatalog(resp.questions)
  /\ DistinctFromCatalog(build.allQuestions)

\* a full session drawn backward from the largest catalog
C17_Witness ==
  /\ Answered200
  /\ Len(questionsFile) = GameLength + ExtraQuestions
  /\ Len(resp.questions) = GameLength
  /\ resp.questions[1].id > resp.questions[2].id

\* the step is a question request answered with questions
QuestionsAnswered == nreq' = nreq + 1 /\ resp'.op = "questions" /\ resp'.code = 200

\* the ids returned to the user by earlier requests
ServedTo(username) ==
  IF username \in DOMAIN served THEN served[username] ELSE {}

\* the ids the stores record as answered by the user
AnsweredBy(username) ==
  (IF username \in DOMAIN User THEN Ids(User[username]) ELSE {})
    \cup Ids(GetUserQuestions(username))

\* C18: no repeated question.  A question request of a user for a tier
\* returns no id that an earlier request returned to that user, as long as
\* the tier has a question the user has not been served (an action
\* property: the step is the request, `served` the ids returned before it).
C18_NoRepeatedQuestion ==
  [][QuestionsAnswered =>
       LET before == ServedTo(resp'.user)
       IN  (Ids(GetQuestions(resp'.level)) \ before # {})
             => Ids(resp'.questions) \cap before = {}
    ]_vars

\* C19: a question request returns at most `count` questions, all of the
\* requested tier and none in the user's answered-id set as it was when the
\* request started; exactly `count` when the user has at least `count`
\* unseen questions in the tier (an action property: the step is the
\* request).
C19_BatchContract ==
  [][QuestionsAnswered =>
       LET answered == AnsweredBy(resp'.user)
           tier == Ids(GetQuestions(resp'.level))
       IN  /\ Len(resp'.questions) <= resp'.count
           /\ Ids(resp'.questions) \subseteq tier
           /\ Ids(resp'.questions) \cap answered = {}
           /\ Cardinality(tier \ answered) >= resp'.count
                => Len(resp'.questions) = resp'.count
    ]_vars

\* C20: an answer check reports correct only if the id is a question of
\* the named tier and the submitted answer equals its stored answer; an id
\* that is not in the tier gets not-found (404), an unknown tier is
\* rejected as invalid (400), and no stored state changes (an action
\* property: the step is the request).
C20_CheckAnswer ==
  [][(nreq' = nreq + 1 /\ resp'.op = "check-answer") =>
       LET inTier == /\ resp'.level \in LEVELS
                     /\ Includes(GetQuestions(resp'.level), resp'.questionId)
       IN  /\ resp'.correct => (inTier /\ resp'.answer = AnswerOf(resp'.questionId))
           /\ (resp'.level \in LEVELS /\ ~inTier) => resp'.code = 404
           /\ resp'.level \notin LEVELS => resp'.code = 400
           /\ UNCHANGED <<boardVars, questionVars>>
    ]_vars

\* C21: GET /stats/:username returns the zeroed default with the
\* 'No stats found' marker exactly when no stats have been recorded for the
\* user: once a completion of the user has succeeded, the answer carries no
\* marker (an action property: the step is the read, `hist` holds the
\* users whose completions succeeded).
C21_StatsFoundAfterCompletion ==
  [][(nreq' = nreq + 1 /\ resp'.op = "stats/:username") =>
       (resp'.error = "No stats found" <=> resp'.user \notin DOMAIN hist)
    ]_vars

\* C22: a user's record of served question ids only grows: no step of
\* the service removes an id from a user's answered-id set (an action
\* property over every step).
C22_AnsweredOnlyGrows ==
  [][\A u \in Users : AnsweredBy(u) \subseteq AnsweredBy(u)']_vars

\* the answered-id list that a question request of the user for the tier
\* would exclude by in this state: user.questionsAnswered when the MongoDB
\* query has a match, the user's list of user_questions.json when it has
\* none and the request falls back to the file
NextConsults(username, level) ==
  IF username \in DOMAIN User /\ FindQuestions(level, User[username], 1) # <<>>
    THEN Ids(User[username])
    ELSE Ids(GetUserQuestions(username))

\* C23: when a question request returns the questions R to a user, the
\* answered-id set that the user's next question request consults for
\* exclusion contains every id of R, whichever path served R (an action
\* property: the step is the request, the next request's set is read in
\* the state it leaves).
C23_ReturnedIdsRecorded ==
  [][\A u \in Users, level \in LEVELS :
       (QuestionsAnswered /\ resp'.user = u)
         => Ids(resp'.questions) \subseteq NextConsults(u, level)'
    ]_vars

\* C24: question requests of one user whose steps interleave never deliver
\* a common id while enough unseen questions exist: a request that
\* delivers its questions delivers none that the user was served before,
\* provided the tier still had `count` never-served questions for it (an
\* action property: the step is the end of a request, `served` the ids
\* returned before it).
C24_NoCommonIdWhenInterleaved ==
  [][\A r \in Slots :
       (reqs[r].pc \in {"saveUser", "insertMany"} /\ reqs'[r].pc = "idle"
          /\ resp'.code = 200)
         => LET q == reqs[r]
                before == ServedTo(q.user)
            IN  Cardinality(Ids(GetQuestions(q.level)) \ before) >= q.count
                  => Ids(q.questions) \cap before = {}
    ]_vars

\* C25: backfill is idempotent.  When a question request falls back to the
\* file and its selection holds an id already stored in the Question
\* collection, the request still answers 200 with its selection and the
\* collection holds each id once (an action property: the step is the
\* request, the fallback and the selection are read in the state before).
C25_BackfillIdempotent ==
  [][(nreq' = nreq + 1 /\ resp'.op = "questions" /\ resp'.level \in LEVELS
        /\ resp'.user \in DOMAIN User)
       => LET selected == Slice(Unused(GetQuestions(resp'.level),
                                       GetUserQuestions(resp'.user)), resp'.count)
              stored == {Question[i].id : i \in 1..Len(Question)}
          IN  ( /\ FindQuestions(resp'.level, User[resp'.user], resp'.count) = <<>>
                /\ Ids(selected) \cap stored # {} )
                => /\ resp'.code = 200
                   /\ resp'.questions = selected
                   /\ \A i, j \in 1..Len(Question') :
                        Question'[i].id = Question'[j].id => i = j
    ]_vars

\* 1-based position of the entry with the id, 0 when absent
PosById(list, id) == FindIndexById(list, id) + 1

\* 1-based position of the entry of the username, 0 when absent
PosByUsername(list, username) == FindIndexByUsername(list, username) + 1

\* entries of equal prize that are in both lists are in the same order in
\* both (for every prize, the entries of that prize are the same
\* subsequence), and the entry with the id `fresh` comes after its equals
TiesByInsertion(old, new, fresh) ==
  LET ids == {new[i].id : i \in 1..Len(new)}
  IN  /\ \A i, j \in 1..Len(new) :
           (i < j /\ new[i].prizeWon = new[j].prizeWon) => new[i].id # fresh
      /\ \A p \in {new[i].prizeWon : i \in 1..Len(new)} :
           SelectSeq(new, LAMBDA e : e.prizeWon = p /\ e.id # fresh) =
             SelectSeq(old, LAMBDA e : e.prizeWon = p /\ e.id \in ids)

\* the same for a username-keyed list written for `username`, whose entry
\* is compared with its equals when the write inserted it (it comes after
\* them) or left its score as it was (it keeps its place)
TiesByInsertionScores(old, new, username) ==
  LET names == {new[i].username : i \in 1..Len(new)}
      was == PosByUsername(old, username)
      is == PosByUsername(new, username)
      moved == IF was > 0 /\ is > 0 /\ old[was].score = new[is].score
                 THEN 0 ELSE username
  IN  /\ was = 0 =>
           \A i, j \in 1..Len(new) :
             (i < j /\ new[i].score = new[j].score) => new[i].username # username
      /\ \A p \in {new[i].score : i \in 1..Len(new)} :
           SelectSeq(new, LAMBDA e : e.score = p /\ e.username # moved) =
             SelectSeq(old, LAMBDA e : /\ e.score = p
                                       /\ e.username # moved
                                       /\ e.username \in names)

\* C26: ties are broken by insertion order.  A write ranks a newly inserted
\* entry after every entry of equal prize, entries of equal prize keep
\* their relative order, and a new entry that ties with the 100th entry of
\* a full leaderboard is the one dropped (an action property: the step is a
\* completion writing the MongoDB list or a stats submission writing the
\* file and the entries array).
C26_TiesByInsertionOrder ==
  [][/\ ( /\ nreq' = nreq + 1
          /\ resp'.op \in {"game/complete", "complete-game"}
          /\ resp'.wroteLeaderboard )
        => /\ TiesByInsertion(MongoList, FindOneList(Leaderboard'), resp'.newId)
           /\ ( /\ Len(MongoList) = TopN
                /\ MongoList[TopN].prizeWon = resp'.prize )
                => FindOneList(Leaderboard') = MongoList
     /\ (nreq' = nreq + 1 /\ resp'.op = "stats")
        => /\ TiesByInsertionScores(lbFile, lbFile', resp'.user)
           /\ TiesByInsertionScores(lbEntries, lbEntries', resp'.user)
           /\ ( /\ Len(lbFile) = TopN
                /\ PosByUsername(lbFile, resp'.user) = 0
                /\ lbFile[TopN].score = resp'.prize )
                => lbFile' = lbFile
    ]_vars

\* a completion on a full list whose prize ties with the 100th entry: the
\* new entry is not in the list
C26_Witness ==
  /\ resp.op = "game/complete"
  /\ resp.wroteLeaderboard
  /\ Len(MongoList) = TopN
  /\ MongoList[TopN].prizeWon = resp.prize
  /\ resp.leaderboardPosition = 0
  /\ \E i \in 1..(TopN - 1) : MongoList[i].prizeWon = resp.prize

\* a response of a completion that created a leaderboard entry
CreatedEntry(r) == r.op \in {"game/complete", "complete-game"} /\ r.wroteLeaderboard

\* C27: leaderboard entry ids are monotonic.  A completion that creates an
\* entry gives it an id strictly greater than the id given by the
\* submission answered just before it, whether or not that entry is still
\* in the list, and the ids in the list are pairwise distinct (an action
\* property: the step is the completion, `resp` the previous answer).
C27_IdsMonotonic ==
  [][(nreq' = nreq + 1 /\ CreatedEntry(resp'))
       => /\ CreatedEntry(resp) => resp'.newId > resp.newId
          /\ LET list == FindOneList(Leaderboard')
             IN  Cardinality({list[i].id : i \in 1..Len(list)}) = Len(list)
    ]_vars

\* a field of the user's Stats record, 0 when the user has no record
StatsField(coll, username, field) ==
  IF username \in DOMAIN coll THEN coll[username][field] ELSE 0

HistField(h, username, field) ==
  IF username \in DOMAIN h THEN h[username][field] ELSE 0

\* C28: a POST /game/complete whose finalPrize is 0, negative or missing
\* leaves the leaderboard unchanged and returns no leaderboardPosition,
\* while its delta is applied to the user's Stats record: one more game,
\* the prize (0 when missing) and the answered questions added (an action
\* property: the step is the completion).
C28_NoPrizeNoLeaderboard ==
  [][(nreq' = nreq + 1 /\ resp'.op = "game/complete" /\ resp'.prize <= 0)
       => /\ UNCHANGED <<Leaderboard, lbEntries, lbFile>>
          /\ resp'.code = 200
          /\ ~resp'.wroteLeaderboard
          /\ resp'.leaderboardPosition = NoResp.leaderboardPosition
          /\ StatsField(Stats', resp'.user, "gamesPlayed") =
               StatsField(Stats, resp'.user, "gamesPlayed") + 1
          /\ StatsField(Stats', resp'.user, "totalPrizeMoney") =
               StatsField(Stats, resp'.user, "totalPrizeMoney") + resp'.prize
          /\ StatsField(Stats', resp'.user, "questionsAnswered")
               - StatsField(Stats, resp'.user, "questionsAnswered") =
             HistField(hist', resp'.user, "answered")
               - HistField(hist, resp'.user, "answered")
    ]_vars

\* a completion without finalPrize answered while the leaderboard has an
\* entry, by a user who has played before
C28_Witness ==
  /\ resp.op = "game/complete"
  /\ resp.body = "noFinalPrize"
  /\ resp.leaderboardPosition = NoResp.leaderboardPosition
  /\ Len(MongoList) > 0
  /\ resp.user \in DOMAIN Stats
  /\ Stats[resp.user].gamesPlayed > 1

\* the list `new` written over `old` has no fewer entries, and when `old`
\* was full its last key is not below that of `old`
BarHolds(old, new) ==
  /\ Len(new) >= Len(old)
  /\ Len(old) = TopN => new[TopN] >= old[TopN]

C30_DualListsEquivalent ==
  [i \in 1..Len(lbEntries) |-> <<lbEntries[i].username, lbEntries[i].score>>]
    = [i \in 1..Len(lbFile) |-> <<lbFile[i].username, ToNumber(lbFile[i].score)>>]

====
